---- MODULE Spec2Model ----
(***************************************************************************)
(* ExpertConfUI: the branch tree of configuration/interfaces/              *)
(* tree_interface.py (ConfigTreeBranch, ConfigTree, TreePrinter) and the   *)
(* schema-tree construction of data_structures/oks/oks_schema_tree.py.     *)
(*                                                                         *)
(* Branch objects are numbered 1..Len(name) in order of construction; a    *)
(* Python list of branches is a sequence of these numbers.  Membership     *)
(* (`x in list`) and list.remove(x) go through ConfigTreeBranch.__eq__,    *)
(* which compares (id, name), so two distinct objects may be equal.        *)
(***************************************************************************)
EXTENDS Integers, Sequences, FiniteSets, TLC

VARIABLES
    name,         \* ConfigTreeBranch.name of every constructed branch
    id,           \* ConfigTreeBranch.id
    stored_data,  \* ConfigTreeBranch._stored_data
    children,     \* ConfigTreeBranch._children
    parents,      \* ConfigTreeBranch._parents
    root,         \* ConfigTree._root_branch
    branches,     \* ConfigTree._branches
    last,         \* the last call made and how it ended
    nops,         \* number of calls made so far
    supers,       \* what all_super_classes() reports for every class
    stack,        \* the call stack of generate_branches
    pc,           \* the position of the OksSchemaTree constructor
    backend,      \* which IConfigBackend was constructed: "oks" or "conffwk"
    session,      \* the fields of its IConfiguration object
    native,       \* the state of the native engine behind the session
    opened,       \* open_configuration has returned normally at least once
    result        \* what the last backend call returned, logged and called

vars == <<name, id, stored_data, children, parents, root, branches,
          last, nops, supers, stack, pc,
          backend, session, native, opened, result>>

\* ---------------------------------------------------------------- bounds
NumObjs == 4
MaxOps == 2
NumClasses == 3
MaxSupers == 3

\* ------------------------------------------------------- values and inputs
\* Branches are positive numbers; None and a value that is no ConfigTreeBranch
\* are the two other things a caller can pass.
None == 0
NotABranch == -1
\* no exception raised, no warning emitted
Quiet == "none"

IdPool == <<"1", "2", "3">>
PoolId(o) == IdPool[((o - 1) % Len(IdPool)) + 1]
PoolName(o) == IF PoolId(o) = "2" THEN "b" ELSE "a"

Objs == 1..Len(name)

isinstance(x) == x \in Objs

\* ------------------------------------------------- ConfigTreeBranch, lists
__eq__(a, b) ==
    IF ~isinstance(b) THEN FALSE
    ELSE id[a] = id[b] /\ name[a] = name[b]

\* `x in s` for a Python list s of branches
ListIn(s, x) == \E i \in 1..Len(s) : __eq__(s[i], x)

ListIndex(s, x) == CHOOSE i \in 1..Len(s) :
    /\ __eq__(s[i], x)
    /\ \A j \in 1..(i - 1) : ~__eq__(s[j], x)

\* s.remove(x) where x is in s: drops the first element equal to x
ListRemove(s, x) ==
    LET k == ListIndex(s, x)
    IN  SubSeq(s, 1, k - 1) \o SubSeq(s, k + 1, Len(s))

\* A heap is the pair of link tables together with the exception, if any,
\* that ended the call being evaluated.
Heap(ch, pa, exc) == [children |-> ch, parents |-> pa, exc |-> exc]

Raise(h, exc) == [h EXCEPT !.exc = exc]

AppendChild(h, self, child) ==
    [h EXCEPT !.children[self] = Append(@, child)]

AppendParent(h, self, parent) ==
    [h EXCEPT !.parents[self] = Append(@, parent)]

_add_child(h, self, child) ==
    IF ~isinstance(child) THEN Raise(h, "NotABranchError")
    ELSE IF ListIn(h.children[self], child) THEN h
    ELSE AppendChild(h, self, child)

_add_parent(h, self, parent) ==
    IF ~isinstance(parent) THEN Raise(h, "NotABranchError")
    ELSE IF ListIn(h.parents[self], parent) THEN h
    ELSE _add_child(AppendParent(h, self, parent), parent, self)

add_child(h, self, child) ==
    IF ~isinstance(child) THEN Raise(h, "NotABranchError")
    ELSE IF ListIn(h.children[self], child) THEN h
    ELSE _add_parent(AppendChild(h, self, child), child, self)

add_parent(h, self, parent) ==
    IF ~isinstance(parent) THEN Raise(h, "NotABranchError")
    ELSE IF ListIn(h.parents[self], parent) THEN h
    ELSE LET h1 == add_child(h, parent, self)
         IN  IF h1.exc # Quiet THEN h1 ELSE AppendParent(h1, self, parent)

_remove_child(h, self, child) ==
    IF ~isinstance(child) THEN Raise(h, "NotABranchError")
    ELSE IF ~ListIn(h.children[self], child) THEN Raise(h, "ValueError")
    ELSE [h EXCEPT !.children[self] = ListRemove(@, child)]

_remove_parent(h, self, parent) ==
    IF ~isinstance(parent) THEN Raise(h, "NotABranchError")
    ELSE IF ~ListIn(h.parents[self], parent) THEN Raise(h, "ValueError")
    ELSE _remove_child([h EXCEPT !.parents[self] = ListRemove(@, parent)],
                       parent, self)

remove_child(h, self, child) ==
    IF ~isinstance(child) THEN Raise(h, "ValueError")
    ELSE IF ~ListIn(h.children[self], child) THEN Raise(h, "ValueError")
    ELSE _remove_parent([h EXCEPT !.children[self] = ListRemove(@, child)],
                        child, self)

remove_parent(h, self, parent) ==
    IF ~isinstance(parent) THEN Raise(h, "NotABranchError")
    ELSE IF ~ListIn(h.parents[self], parent) THEN Raise(h, "ValueError")
    ELSE remove_child([h EXCEPT !.parents[self] = ListRemove(@, parent)],
                      parent, self)

\* ---------------------------------------------------------------- ConfigTree
\* A tree state is the heap together with the ConfigTree's fields and the
\* warning, if any, that the call being evaluated emitted.
Tree(h, rt, br, warn) ==
    [h |-> h, root |-> rt, branches |-> br, warn |-> warn]

\* a predicate is the table of its values on the branches
find_branches(br, predicate) ==
    LET matches(branch) == predicate[branch]
    IN  SelectSeq(br, matches)

get_branches_by_id(br, branch_id) ==
    find_branches(br, [branch \in Objs |-> id[branch] = branch_id])

get_branches_by_name(br, n) ==
    find_branches(br, [branch \in Objs |-> name[branch] = n])

get_branches_by_obj(br, obj) ==
    find_branches(br, [branch \in Objs |-> stored_data[branch] = obj])

NameIdMatches(br, n, branch_id) ==
    find_branches(br, [branch \in Objs |-> name[branch] = n /\ id[branch] = branch_id])

get_branch_by_name_id(br, n, branch_id) ==
    LET found == NameIdMatches(br, n, branch_id)
    IN  IF Len(found) > 0 THEN found[1] ELSE None

\* add_branch with lines 228-229 left out: registers without the lookup
Register_unchecked(t, branch) ==
    [t EXCEPT !.branches = Append(@, branch)]

Register(t, branch) ==
    IF get_branch_by_name_id(t.branches, name[branch], id[branch]) # None
    THEN t
    ELSE [t EXCEPT !.branches = Append(@, branch)]

\* add_branch with line 224 left out: the registry is not cleared on a new root
add_branch_no_reset(t, parent, branch) ==
    IF ~isinstance(branch) THEN [t EXCEPT !.h = Raise(@, "NotABranchError")]
    ELSE IF parent = None
    THEN Register([t EXCEPT !.warn = IF t.root # None
                                     THEN "BranchExistsWarning" ELSE Quiet,
                            !.root = branch],
                  branch)
    ELSE LET h1 == add_parent(t.h, branch, parent)
         IN  IF h1.exc # Quiet THEN [t EXCEPT !.h = h1]
             ELSE Register([t EXCEPT !.h = h1], branch)

add_branch(t, parent, branch) ==
    IF ~isinstance(branch) THEN [t EXCEPT !.h = Raise(@, "NotABranchError")]
    ELSE IF parent = None
    THEN Register([t EXCEPT !.warn = IF t.root # None
                                     THEN "BranchExistsWarning" ELSE Quiet,
                            !.root = branch,
                            !.branches = <<>>],
                  branch)
    ELSE LET h1 == add_parent(t.h, branch, parent)
         IN  IF h1.exc # Quiet THEN [t EXCEPT !.h = h1]
             ELSE Register([t EXCEPT !.h = h1], branch)

\* remove_branch that also drops the branch's children from the registry
remove_branch_cascade(t, branch) ==
    IF ~isinstance(branch) THEN [t EXCEPT !.h = Raise(@, "NotABranchError")]
    ELSE IF ~ListIn(t.branches, branch) THEN [t EXCEPT !.h = Raise(@, "ValueError")]
    ELSE LET kept(o) == ~ListIn(t.h.children[branch], o)
         IN  [t EXCEPT !.branches = SelectSeq(ListRemove(@, branch), kept)]

remove_branch(t, branch) ==
    IF ~isinstance(branch) THEN [t EXCEPT !.h = Raise(@, "NotABranchError")]
    ELSE IF ~ListIn(t.branches, branch) THEN [t EXCEPT !.h = Raise(@, "ValueError")]
    ELSE [t EXCEPT !.branches = ListRemove(@, branch)]

get_all_branches == branches

get_root == root

\* --------------------------------------------------------------- TreePrinter
ChildSet(h, o) == {h[o][i] : i \in 1..Len(h[o])}

RECURSIVE Reach(_, _, _)
Reach(h, S, k) ==
    IF k = 0 THEN S
    ELSE Reach(h, S \cup UNION {ChildSet(h, o) : o \in S}, k - 1)

\* the branches a recursive walk over _children visits below b
Descendants(b) == Reach(children, ChildSet(children, b), Cardinality(Objs))

\* branch_to_dict(b) recurses without end iff the walk from b meets a cycle
Recurses(b) == \E o \in Descendants(b) \cup {b} : o \in Descendants(o)

RECURSIVE branch_to_dict(_)
branch_to_dict(branch) ==
    [name |-> name[branch],
     id |-> id[branch],
     stored_data |-> stored_data[branch],
     children |-> [i \in 1..Len(children[branch]) |->
                      branch_to_dict(children[branch][i])],
     parents |-> [i \in 1..Len(parents[branch]) |-> id[parents[branch][i]]]]

tree_to_dict ==
    IF get_root = None THEN [empty |-> TRUE]
    ELSE IF Recurses(get_root) \/ \E i \in 1..Len(branches) : Recurses(branches[i])
    THEN [error |-> "RecursionError"]
    ELSE [root |-> branch_to_dict(get_root),
          branches |-> [i \in 1..Len(branches) |-> branch_to_dict(branches[i])]]

\* nx.DiGraph: nodes are keyed by what add_node/add_edge are given, here names;
\* add_node on a known key overwrites its attributes, add_edge adds the missing
\* end points without attributes, and a repeated edge is the same edge.
Registered == {branches[i] : i \in 1..Len(branches)}

GraphEdges ==
    UNION {{<<name[b], name[c]>> : c \in ChildSet(children, b)} : b \in Registered}

AddedNodes == {name[branches[i]] : i \in 1..Len(branches)}

LastNamed(n) ==
    LET k == CHOOSE i \in 1..Len(branches) :
                 /\ name[branches[i]] = n
                 /\ \A j \in (i + 1)..Len(branches) : name[branches[j]] # n
    IN  branches[k]

networkx_graph ==
    [nodes |-> AddedNodes \cup {e[1] : e \in GraphEdges} \cup {e[2] : e \in GraphEdges},
     stored_data |-> [n \in AddedNodes |-> stored_data[LastNamed(n)]],
     edges |-> GraphEdges]

\* ------------------------------------------------ calls on branches and tree
\* A call record: the method, its arguments, the exception and the warning it
\* ended with, and how many branches were registered when it was made.
Call(op, a1, a2, exc, warn) ==
    [op |-> op, a1 |-> a1, a2 |-> a2, exc |-> exc, warn |-> warn,
     registered |-> Len(branches)]

NoSchema == UNCHANGED <<name, id, stored_data, supers, stack, pc>>

NoBackend == UNCHANGED <<backend, session, native, opened, result>>

CurHeap == Heap(children, parents, Quiet)

CurTree == Tree(CurHeap, root, branches, Quiet)

\* The effect of a method of ConfigTreeBranch that ended in heap h.
BranchCall(op, self, arg, h) ==
    /\ nops < MaxOps
    /\ pc = "tree"
    /\ children' = h.children
    /\ parents' = h.parents
    /\ last' = Call(op, self, arg, h.exc, Quiet)
    /\ nops' = nops + 1
    /\ UNCHANGED <<root, branches>>
    /\ NoSchema
    /\ NoBackend

\* The effect of a method of ConfigTree that ended in tree state t.
TreeCall(op, a1, a2, t) ==
    /\ nops < MaxOps
    /\ pc = "tree"
    /\ children' = t.h.children
    /\ parents' = t.h.parents
    /\ root' = t.root
    /\ branches' = t.branches
    /\ last' = Call(op, a1, a2, t.h.exc, t.warn)
    /\ nops' = nops + 1
    /\ NoSchema
    /\ NoBackend

AddChild(self, child) ==
    BranchCall("add_child", self, child, add_child(CurHeap, self, child))

AddParent(self, parent) ==
    BranchCall("add_parent", self, parent, add_parent(CurHeap, self, parent))

RemoveChild(self, child) ==
    BranchCall("remove_child", self, child, remove_child(CurHeap, self, child))

RemoveParent(self, parent) ==
    BranchCall("remove_parent", self, parent,
               remove_parent(CurHeap, self, parent))

AddBranch(parent, branch) ==
    TreeCall("add_branch", parent, branch, add_branch(CurTree, parent, branch))

RemoveBranch(branch) ==
    TreeCall("remove_branch", branch, None, remove_branch(CurTree, branch))

Args == Objs \cup {NotABranch}

\* no IConfigBackend has been constructed
NoBackendYet ==
    /\ backend = "none"
    /\ session = <<>>
    /\ native = <<>>
    /\ opened = FALSE
    /\ result = <<>>

\* Branches 1..NumObjs are constructed and a ConfigTree is built on one of them.
Init ==
    /\ name = [o \in 1..NumObjs |-> PoolName(o)]
    /\ id = [o \in 1..NumObjs |-> PoolId(o)]
    /\ stored_data = [o \in 1..NumObjs |-> None]
    /\ children = [o \in 1..NumObjs |-> <<>>]
    /\ parents = [o \in 1..NumObjs |-> <<>>]
    /\ root = 1
    /\ branches = <<root>>
    /\ last = [Call("__init__", root, None, Quiet, Quiet) EXCEPT !.registered = 0]
    /\ nops = 0
    /\ supers = <<>>
    /\ stack = <<>>
    /\ pc = "tree"
    /\ NoBackendYet

Next ==
    \/ \E self \in Objs, child \in Args : AddChild(self, child)
    \/ \E self \in Objs, parent \in Args : AddParent(self, parent)
    \/ \E self \in Objs, child \in Args : RemoveChild(self, child)
    \/ \E self \in Objs, parent \in Args : RemoveParent(self, parent)
    \/ \E parent \in Args \cup {None}, branch \in Args : AddBranch(parent, branch)
    \/ \E branch \in Args : RemoveBranch(branch)

Spec == Init /\ [][Next]_vars

TypeOK ==
    /\ DOMAIN children = Objs
    /\ DOMAIN parents = Objs
    /\ \A o \in Objs : \A i \in 1..Len(children[o]) : children[o][i] \in Objs
    /\ \A o \in Objs : \A i \in 1..Len(parents[o]) : parents[o][i] \in Objs
    /\ root \in Objs \cup {None}
    /\ \A i \in 1..Len(branches) : branches[i] \in Objs

\* The trees that are populated through add_branch alone.
NextAddBranch ==
    \E parent \in Args \cup {None}, branch \in Args : AddBranch(parent, branch)

SpecAddBranch == Init /\ [][NextAddBranch]_vars

\* ------------------------------------------------------------ OksSchemaTree
\* Classes are numbered; the name of class c, which get_attr("name") returns.
Classes == 1..NumClasses

ClassName(c) == "Class" \o ToString(c)

\* The recursion depth the interpreter allows generate_branches.  A hierarchy
\* without cycles over NumClasses classes needs at most NumClasses frames.
RecursionLimit == NumClasses + 1

SortedSeq(S) ==
    CHOOSE s \in [1..Cardinality(S) -> S] :
        \A i, j \in 1..Cardinality(S) : i < j => s[i] < s[j]

\* what all_super_classes() may report for one class
SuperLists == {SortedSeq(S) : S \in {T \in SUBSET Classes : Cardinality(T) <= MaxSupers}}

\* all_super_classes() has not been called on the class yet
Unasked == <<None>>

\* The call oks_class.get_attr('all_super_classes')() on class c answering
\* rels: the first answer for a class is any list, later ones repeat it.
Answers(c, rels) ==
    /\ rels \in SuperLists
    /\ supers[c] # Unasked => rels = supers[c]
    /\ supers' = [supers EXCEPT ![c] = rels]

\* ConfigTreeBranch(name, id, stored_data) constructs the next branch object
NewObject(n, i, data) ==
    /\ name' = Append(name, n)
    /\ id' = Append(id, i)
    /\ stored_data' = Append(stored_data, data)
    /\ children' = Append(children, <<>>)
    /\ parents' = Append(parents, <<>>)

Frame(branch, rels, at, i, cur) ==
    [parent_branch |-> branch, rels |-> rels, at |-> at, i |-> i, cur |-> cur]

Top == stack[Len(stack)]

SetTop(f) == [stack EXCEPT ![Len(stack)] = f]

\* OksSchemaTree.__init__ and the entry of generate_branches(root_branch)
Construct(lowest_level_class) ==
    /\ pc = "start"
    /\ NoBackend
    /\ NewObject(ClassName(lowest_level_class), "root", lowest_level_class)
    /\ root' = Len(name) + 1
    /\ branches' = <<Len(name) + 1>>
    /\ \E rels \in SuperLists :
          /\ Answers(lowest_level_class, rels)
          /\ stack' = <<Frame(Len(name) + 1, rels, "for", 1, None)>>
    /\ pc' = "generate_branches"
    /\ UNCHANGED <<last, nops>>

\* the loop head and lines 33-39: wrap the next superclass in a new branch
NewBranch ==
    /\ pc = "generate_branches"
    /\ NoBackend
    /\ Top.at = "for"
    /\ Top.i <= Len(Top.rels)
    /\ LET rel == Top.rels[Top.i]
       IN  NewObject(ClassName(rel), ClassName(rel), rel)
    /\ stack' = SetTop([Top EXCEPT !.at = "add_branch", !.cur = Len(name) + 1])
    /\ UNCHANGED <<root, branches, last, nops, supers, pc>>

\* line 41 written as self.add_branch(self.get_root(), branch)
LinkBranch_under_root ==
    /\ pc = "generate_branches"
    /\ NoBackend
    /\ Top.at = "add_branch"
    /\ LET t == add_branch(CurTree, get_root, Top.cur)
       IN  /\ children' = t.h.children
           /\ parents' = t.h.parents
           /\ root' = t.root
           /\ branches' = t.branches
           /\ last' = Call("add_branch", get_root, Top.cur, t.h.exc, t.warn)
    /\ stack' = SetTop([Top EXCEPT !.at = "recurse"])
    /\ UNCHANGED <<name, id, stored_data, nops, supers, pc>>

\* line 41: self.add_branch(parent_branch, branch)
LinkBranch ==
    /\ pc = "generate_branches"
    /\ NoBackend
    /\ Top.at = "add_branch"
    /\ LET t == add_branch(CurTree, Top.parent_branch, Top.cur)
       IN  /\ children' = t.h.children
           /\ parents' = t.h.parents
           /\ root' = t.root
           /\ branches' = t.branches
           /\ last' = Call("add_branch", Top.parent_branch, Top.cur, t.h.exc, t.warn)
    /\ stack' = SetTop([Top EXCEPT !.at = "recurse"])
    /\ UNCHANGED <<name, id, stored_data, nops, supers, pc>>

\* line 42 written as self.generate_branches(parent_branch)
Recurse_on_parent ==
    /\ pc = "generate_branches"
    /\ NoBackend
    /\ Top.at = "recurse"
    /\ Len(stack) < RecursionLimit
    /\ \E rels \in SuperLists :
          /\ Answers(stored_data[Top.parent_branch], rels)
          /\ stack' = Append(SetTop([Top EXCEPT !.at = "for", !.i = @ + 1, !.cur = None]),
                             Frame(Top.parent_branch, rels, "for", 1, None))
    /\ UNCHANGED <<name, id, stored_data, children, parents, root, branches,
                   last, nops, pc>>

\* line 42: self.generate_branches(branch), within the recursion limit, and
\* the callee's line 30-32
Recurse ==
    /\ pc = "generate_branches"
    /\ NoBackend
    /\ Top.at = "recurse"
    /\ Len(stack) < RecursionLimit
    /\ \E rels \in SuperLists :
          /\ Answers(stored_data[Top.cur], rels)
          /\ stack' = Append(SetTop([Top EXCEPT !.at = "for", !.i = @ + 1, !.cur = None]),
                             Frame(Top.cur, rels, "for", 1, None))
    /\ UNCHANGED <<name, id, stored_data, children, parents, root, branches,
                   last, nops, pc>>

\* line 42 when the interpreter's recursion limit is reached: RecursionError
\* unwinds every frame and leaves the constructor
Overflow ==
    /\ pc = "generate_branches"
    /\ NoBackend
    /\ Top.at = "recurse"
    /\ Len(stack) >= RecursionLimit
    /\ stack' = <<>>
    /\ pc' = "RecursionError"
    /\ UNCHANGED <<name, id, stored_data, children, parents, root, branches,
                   last, nops, supers>>

\* the loop is exhausted: generate_branches returns to its caller
Return ==
    /\ pc = "generate_branches"
    /\ NoBackend
    /\ Top.at = "for"
    /\ Top.i > Len(Top.rels)
    /\ stack' = SubSeq(stack, 1, Len(stack) - 1)
    /\ pc' = IF Len(stack) = 1 THEN "done" ELSE pc
    /\ UNCHANGED <<name, id, stored_data, children, parents, root, branches,
                   last, nops, supers>>

\* Before OksSchemaTree(oks_backend, lowest_level_class): no branch yet and
\* no class asked for its superclasses.
InitSchema ==
    /\ name = <<>>
    /\ id = <<>>
    /\ stored_data = <<>>
    /\ children = <<>>
    /\ parents = <<>>
    /\ root = None
    /\ branches = <<>>
    /\ last = [Call("none", None, None, Quiet, Quiet) EXCEPT !.registered = 0]
    /\ nops = 0
    /\ supers = [c \in Classes |-> Unasked]
    /\ stack = <<>>
    /\ pc = "start"
    /\ NoBackendYet

\* Class numbers are interchangeable and every answer is tried for every
\* class, so the class the tree is rooted at is taken to be the first.
RootChoices == {c \in Classes : \A k \in Classes : c <= k}

NextSchema ==
    \/ \E c \in RootChoices : Construct(c)
    \/ NewBranch
    \/ LinkBranch
    \/ Recurse
    \/ Overflow
    \/ Return

\* the constructor is one sequential call: it takes its next step
SpecSchema == InitSchema /\ [][NextSchema]_vars /\ WF_vars(NextSchema)

\* ---------------------------------------------------- configuration backends
\* The sessions of implementations/oks/oks_kernel.py and
\* implementations/conffwk/conffwk_config.py behind the facade of
\* interfaces/configuration_backend.py.  The native engines (the oks and
\* conffwk libraries) are collaborators: a call into them is modelled by its
\* documented effect, and where the engine decides the outcome (a file that
\* cannot be loaded) every outcome is possible.

\* number of calls made on one backend
MaxCalls == 2
\* length of the lists a caller passes
MaxList == 2

\* Python values
NoneValue == [type |-> "NoneType"]

Str(chars) == [type |-> "str", chars |-> chars]

Bool(v) == [type |-> "bool", v |-> v]

List(items) == [type |-> "list", items |-> items]

\* bool(v), as `if v` and `not v` evaluate it
Truthy(v) ==
    CASE v.type = "NoneType" -> FALSE
      [] v.type = "bool" -> v.v
      [] v.type = "str" -> v.chars # <<>>
      [] v.type = "list" -> v.items # <<>>
      [] OTHER -> TRUE

\* A string is the sequence of its pieces; s.endswith(suffix)
endswith(s, suffix) ==
    /\ Len(s) >= Len(suffix)
    /\ SubSeq(s, Len(s) - Len(suffix) + 1, Len(s)) = suffix

\* ConfigType member names and str.lower() on them
ConfigType == {"DATA", "SCHEMA", "OTHER"}

lower ==
    [n \in ConfigType |->
        IF n = "DATA" THEN "data" ELSE IF n = "SCHEMA" THEN "schema" ELSE "other"]

CONFIG_NAME_EXTENSION == ".xml"

\* f"{self.__CONFIG_TYPE.name.lower()}{self.__CONFIG_NAME_EXTENSION}"
ExpectedSuffix(config_type) == <<lower[config_type], CONFIG_NAME_EXTENSION>>

OksConfigType == "SCHEMA"

ConffwkConfigType == "DATA"

\* the configuration names callers pass: one named for a schema, one named
\* for data, one with the extension only and one shorter than any suffix
SchemaFile == <<"a.", "schema", ".xml">>

DataFile == <<"b.", "data", ".xml">>

FileNames == {SchemaFile, DataFile, <<"c", ".xml">>, <<"d">>}

ClassPool == {"Widget", "Gadget"}

DalPool == {<<"Widget", "w1">>, <<"Widget", "w2">>}

Messages == {<<>>, <<"msg">>}

\* exceptions
NotLoaded == "ValueError: Configuration is not loaded."

NotFound == "ValueError: Class not found in the configuration."

NativeError == "RuntimeError"

\* The world a call runs in: the session object, the engine, and what the
\* call has raised, returned, logged and asked of the engine so far.
World(se, na) ==
    [session |-> se, native |-> na, exc |-> Quiet, ret |-> NoneValue,
     log |-> <<>>, calls |-> <<>>]

Throw(w, exc) == [w EXCEPT !.exc = exc, !.ret = NoneValue]

Returns(w, v) == [w EXCEPT !.ret = v]

Log(w, level, msg) == [w EXCEPT !.log = Append(@, [level |-> level, msg |-> msg])]

NativeCall(w, method, arg) ==
    [w EXCEPT !.calls = Append(@, [method |-> method, arg |-> arg])]

\* ------------------------------------------------------------ oks.OksKernel
\* The engine holds the loaded schema files, the loaded data files, the
\* classes with the file each lives in, the data objects, and what was saved;
\* for the classes it holds their field values (class, field, value), their
\* properties (class, kind, name) and the implementations of their methods
\* (class, method, language, prototype, body); members are the names the
\* binding exposes on a class object.
EmptyEngine ==
    [schema |-> {}, data |-> {}, classes |-> {}, dals |-> {}, saved |-> {},
     fields |-> {}, props |-> {}, impls |-> {}, members |-> {}]

\* the properties a class of a loaded file may have, and the implementation
\* its methods come with
PropPool ==
    {<<"attribute", "size">>, <<"relationship", "owner">>,
     <<"method", "run">>, <<"method", "implementation">>}

StockImplementation == <<Str(<<"c++">>), Str(<<"void f()">>), Str(<<"{}">>)>>

\* what loading a file may do: fail, or bring in the classes of the file,
\* bare or with the properties of PropPool
LoadOutcomes ==
    {[ok |-> FALSE, classes |-> {}, dals |-> {}, props |-> {}]}
        \cup {[ok |-> TRUE, classes |-> C, dals |-> {}, props |-> P] :
                  C \in SUBSET ClassPool, P \in {{}, PropPool}}

\* the value the engine holds for a field of class c, None when it holds none
FieldOf(na, c, field) ==
    IF \E f \in na.fields : f[1] = c /\ f[2] = field
    THEN (CHOOSE f \in na.fields : f[1] = c /\ f[2] = field)[3]
    ELSE NoneValue

FieldNames(na, c) == {f[2] : f \in {x \in na.fields : x[1] = c}}

\* the state of a class as the engine builds it
NewClass(na, c, file, description, is_abstract, transient) ==
    [na EXCEPT !.classes = {cf \in @ : cf[1] # c} \cup {<<c, file>>},
               !.fields = {f \in @ : f[1] # c}
                              \cup {<<c, <<"description">>, description>>,
                                    <<c, <<"is_abstract">>, is_abstract>>,
                                    <<c, <<"transient">>, transient>>},
               !.props = {q \in @ : q[1] # c},
               !.impls = {m \in @ : m[1] # c}]

\* the engine without class c
DroppedClass(na, c) ==
    [na EXCEPT !.classes = {cf \in @ : cf[1] # c},
               !.fields = {f \in @ : f[1] # c},
               !.props = {q \in @ : q[1] # c},
               !.impls = {m \in @ : m[1] # c}]

RECURSIVE LoadedClasses(_, _, _, _)
LoadedClasses(na, cs, file, props) ==
    IF cs = {} THEN na
    ELSE LET c == CHOOSE x \in cs : TRUE
             n1 == NewClass(na, c, file, Str(<<"loaded">>), Bool(FALSE), Bool(FALSE))
             n2 == [n1 EXCEPT !.props = @ \cup {<<c, q[1], q[2]>> : q \in props},
                              !.impls = @ \cup {<<c, q[2]>> \o StockImplementation :
                                                   q \in {x \in props : x[1] = "method"}}]
         IN  LoadedClasses(n2, cs \ {c}, file, props)

load_schema(w, file, outcome) ==
    LET w1 == NativeCall(w, "load_schema", file)
    IN  IF ~outcome.ok THEN Throw(w1, NativeError)
        ELSE [w1 EXCEPT !.native =
                 LoadedClasses([@ EXCEPT !.schema = @ \cup {file}],
                               outcome.classes, file, outcome.props)]

close_all_schema(w) ==
    [NativeCall(w, "close_all_schema", NoneValue)
        EXCEPT !.native.schema = {}, !.native.classes = {},
               !.native.fields = {}, !.native.props = {}, !.native.impls = {}]

close_all_data(w) ==
    [NativeCall(w, "close_all_data", NoneValue)
        EXCEPT !.native.data = {}, !.native.dals = {}]

RECURSIVE DroppedClasses(_, _)
DroppedClasses(na, cs) ==
    IF cs = {} THEN na
    ELSE LET c == CHOOSE x \in cs : TRUE
         IN  DroppedClasses(DroppedClass(na, c), cs \ {c})

close_schema(w, file) ==
    [NativeCall(w, "close_schema", file)
        EXCEPT !.native =
            DroppedClasses([@ EXCEPT !.schema = @ \ {file}],
                           {cf[1] : cf \in {x \in w.native.classes : x[2] = file}})]

close_data(w, file) ==
    [NativeCall(w, "close_data", file) EXCEPT !.native.data = @ \ {file}]

save_all_schema(w, message) ==
    [NativeCall(w, "save_all_schema", message)
        EXCEPT !.native.saved = @ \cup {<<f, message>> : f \in w.native.schema}]

save_all_data(w, message) ==
    [NativeCall(w, "save_all_data", message)
        EXCEPT !.native.saved = @ \cup {<<f, message>> : f \in w.native.data}]

\* ------------------------------------------------------ conffwk.Configuration
ConnectOutcomes ==
    {[ok |-> FALSE, classes |-> {}, dals |-> {}, props |-> {}]}
        \cup {[ok |-> TRUE, classes |-> {}, dals |-> D, props |-> {}] :
                  D \in SUBSET DalPool}

\* conffwk.Configuration(f"oksconflibs:{configuration_name}")
Configuration(w, db, outcome) ==
    LET w1 == NativeCall(w, "Configuration", <<"oksconflibs:">> \o db)
    IN  IF ~outcome.ok THEN Throw(w1, NativeError)
        ELSE Returns([w1 EXCEPT !.native = [EmptyEngine EXCEPT !.data = {db},
                                                               !.dals = outcome.dals,
                                                               !.saved = w.native.saved,
                                                               !.members = w.native.members]],
                     [type |-> "Configuration", db |-> db])

unload(w) ==
    [NativeCall(w, "unload", NoneValue)
        EXCEPT !.native.data = {}, !.native.dals = {}]

commit(w, message) ==
    [NativeCall(w, "commit", message)
        EXCEPT !.native.saved = @ \cup {<<f, message>> : f \in w.native.data}]

\* ---------------------------------------------------- OksKernelConfiguration
\* OksKernelConfiguration.__init__: the kernel is created with the session
OksSession ==
    [_configuration |-> [type |-> "OksKernel"],
     _configuration_name |-> NoneValue]

\* open_configuration that rejects a name without the suffix
oks_open_configuration_strict(w, config_name, outcome) ==
    IF ~endswith(config_name.chars, ExpectedSuffix(OksConfigType))
    THEN Throw(Log(w, "INFO", "config_name"), "ValueError")
    ELSE load_schema(Log(Log(w, "INFO", "config_name"), "INFO", "Opening configuration"),
                     config_name.chars, outcome)

oks_open_configuration(w, config_name, outcome) ==
    LET w1 == Log(w, "INFO", "config_name")
        w2 == IF ~endswith(config_name.chars, ExpectedSuffix(OksConfigType))
              THEN Log(w1, "ERROR", "Configuration name must end with")
              ELSE w1
        w3 == Log(w2, "INFO", "Opening configuration")
    IN  load_schema(w3, config_name.chars, outcome)

\* the loop of close_configuration over file_names
RECURSIVE oks_close_each(_, _)
oks_close_each(w, file_names) ==
    IF file_names = <<>> THEN w
    ELSE oks_close_each(close_data(close_schema(w, Head(file_names).chars),
                                   Head(file_names).chars),
                        Tail(file_names))

oks_close_configuration(w, partial_close, file_names) ==
    IF ~Truthy(partial_close) THEN close_all_data(close_all_schema(w))
    ELSE IF file_names.type = "str" THEN oks_close_each(w, <<file_names>>)
    ELSE IF file_names.type = "list" THEN oks_close_each(w, file_names.items)
    ELSE Throw(w, "TypeError")

oks_save_configuration(w, commit_message) ==
    IF ~Truthy(w.session._configuration)
    THEN Throw(Log(w, "ERROR", "Configuration is not loaded."), NotLoaded)
    ELSE save_all_data(save_all_schema(Log(w, "INFO", "Saving configuration"),
                                       commit_message.chars),
                       commit_message.chars)

\* ------------------------------------------------------ ConffwkConfiguration
\* ConffwkConfiguration(): the class attributes of IConfiguration; the
\* attribute configuration_name does not exist before open_configuration
Unset == [type |-> "unset"]

ConffwkSession ==
    [_configuration |-> NoneValue,
     _configuration_name |-> NoneValue,
     configuration_name |-> Unset]

conffwk_open_configuration(w, configuration_name, outcome) ==
    LET w1 == IF ~endswith(configuration_name.chars, ExpectedSuffix(ConffwkConfigType))
              THEN Log(w, "ERROR", "Configuration name must end with")
              ELSE w
        w2 == Log(w1, "INFO", "Opening configuration")
        w3 == [w2 EXCEPT !.session.configuration_name = configuration_name]
        w4 == Configuration(w3, configuration_name.chars, outcome)
    IN  IF w4.exc # Quiet THEN w4
        ELSE Returns([w4 EXCEPT !.session._configuration = w4.ret], NoneValue)

conffwk_close_configuration(w, partial_close, file_names) ==
    IF w.session._configuration = NoneValue THEN Throw(w, NotLoaded)
    ELSE LET w1 == Log(w, "INFO", "Closing configuration")
             w2 == IF Truthy(partial_close)
                   THEN Log(w1, "WARNING", "Partial close is not supported")
                   ELSE w1
         IN  unload(w2)

conffwk_save_configuration(w, commit_message) ==
    IF w.session._configuration = NoneValue THEN Throw(w, "AttributeError")
    ELSE commit(w, commit_message.chars)

\* IConfiguration.name
configuration_name_property(se) == se._configuration_name

\* ------------------------------------------------------------ IConfigBackend
open(w, configuration_name, outcome) ==
    IF backend = "oks" THEN oks_open_configuration(w, configuration_name, outcome)
    ELSE conffwk_open_configuration(w, configuration_name, outcome)

close(w, partial_close, file_names) ==
    IF backend = "oks" THEN oks_close_configuration(w, partial_close, file_names)
    ELSE conffwk_close_configuration(w, partial_close, file_names)

save(w, commit_message) ==
    IF backend = "oks" THEN oks_save_configuration(w, commit_message)
    ELSE conffwk_save_configuration(w, commit_message)

\* the defaults of close(partial_close="", file_names=None)
DefaultPartialClose == Str(<<>>)

DefaultFileNames == NoneValue

\* ----------------------------------------- OksClassWrapper, OksKernelClassHandler
\* a native oks.OksClass object and the wrapper around a native object
OksClass(c) == [type |-> "OksClass", name |-> Str(<<c>>)]

\* OksAttributeHandler(oks_instance), OksMethodHandler(oks_instance) and
\* OksRelationshipHandler(oks_instance): each binds one property kind to the
\* owning class
PropertyHandlers(oks_instance) ==
    [attributes |-> [kind |-> "ATTRIBUTE", owner |-> oks_instance.name],
     methods |-> [kind |-> "METHOD", owner |-> oks_instance.name],
     relationships |-> [kind |-> "RELATIONSHIP", owner |-> oks_instance.name]]

Wrapped(oks_instance) ==
    [type |-> "OksClassWrapper", _instance |-> oks_instance,
     _property_handlers |-> PropertyHandlers(oks_instance)]

\* OksClassWrapper.__init__
OksClassWrapper(w, oks_instance) ==
    IF oks_instance.type # "OksClass" THEN Throw(w, "TypeError")
    ELSE Returns(w, Wrapped(oks_instance))

\* OksClassWrapper.name: get_attr("name") asks the wrapped class
wrapper_name(wrapper) == wrapper._instance.name

ClassNames(na) == {cf[1] : cf \in na.classes}

\* kernel.find_class(object_class): the class of that exact name, or None;
\* the binding takes a string only
find_class(w, object_class) ==
    LET w1 == NativeCall(w, "find_class", object_class)
    IN  IF object_class.type # "str" THEN Throw(w1, "TypeError")
        ELSE IF \E c \in ClassNames(w.native) : object_class.chars = <<c>>
        THEN Returns(w1, OksClass(object_class.chars[1]))
        ELSE Returns(w1, NoneValue)

SortedNames(S) ==
    CHOOSE s \in [1..Cardinality(S) -> S] :
        \A i, j \in 1..Cardinality(S) : i # j => s[i] # s[j]

\* kernel.classes(): iterating it yields the class names or the class objects,
\* depending on the binding
classes(w, yields) ==
    LET cs == SortedNames(ClassNames(w.native))
    IN  Returns(NativeCall(w, "classes", NoneValue),
                List([i \in 1..Len(cs) |->
                        IF yields = "names" THEN Str(<<cs[i]>>) ELSE OksClass(cs[i])]))

\* get_obj with the None test of lines 132-134 left out
oks_get_obj_unchecked(w, object_class) ==
    LET w1 == find_class(w, object_class)
    IN  IF w1.exc # Quiet THEN w1
        ELSE Returns(w1, [type |-> "OksClassWrapper", _instance |-> w1.ret,
                          _property_handlers |-> <<>>])

oks_get_obj(w, object_class) ==
    LET w1 == find_class(w, object_class)
    IN  IF w1.exc # Quiet THEN w1
        ELSE IF w1.ret = NoneValue
        THEN Throw(Log(w1, "ERROR", "Class not found"), NotFound)
        ELSE OksClassWrapper(w1, w1.ret)

\* [OksClassWrapper(self.get_obj(c)) for c in ...classes()]
RECURSIVE oks_wrap_each(_, _, _)
oks_wrap_each(w, cs, acc) ==
    IF cs = <<>> THEN Returns(w, List(acc))
    ELSE LET w1 == oks_get_obj(w, Head(cs))
             w2 == IF w1.exc # Quiet THEN w1 ELSE OksClassWrapper(w1, w1.ret)
         IN  IF w2.exc # Quiet THEN w2
             ELSE oks_wrap_each(w2, Tail(cs), Append(acc, w2.ret))

\* [self.get_obj(c) for c in object_class]
RECURSIVE oks_get_each(_, _, _)
oks_get_each(w, cs, acc) ==
    IF cs = <<>> THEN Returns(w, List(acc))
    ELSE LET w1 == oks_get_obj(w, Head(cs))
         IN  IF w1.exc # Quiet THEN w1
             ELSE oks_get_each(w1, Tail(cs), Append(acc, w1.ret))

oks_get_all_obj(w, object_class, yields) ==
    IF object_class = NoneValue
    THEN oks_wrap_each(classes(w, yields), classes(w, yields).ret.items, <<>>)
    ELSE IF object_class.type = "str" THEN oks_get_each(w, <<object_class>>, <<>>)
    ELSE oks_get_each(w, object_class.items, <<>>)

\* the schema file a new class goes to
ActiveFile(na) == IF na.schema = {} THEN <<>> ELSE CHOOSE f \in na.schema : TRUE

\* what an OksClassWrapper has: its properties and methods
WrapperMembers ==
    {"attributes", "methods", "relationships", "instance", "set_attr",
     "get_attr", "name"}

\* __copy_class: obj.get_description() is asked of the wrapper before the
\* engine is called; with it the new class is built and the properties of
\* obj are added to it (transient is not passed on)
copy_class(w, obj, new_name) ==
    IF "get_description" \notin WrapperMembers THEN Throw(w, "AttributeError")
    ELSE LET c == wrapper_name(obj).chars[1]
             n == new_name.chars[1]
             w1 == NativeCall(w, "OksClass", new_name)
             n1 == NewClass(w.native, n, ActiveFile(w.native),
                            FieldOf(w.native, c, <<"description">>),
                            FieldOf(w.native, c, <<"is_abstract">>), Bool(FALSE))
             n2 == [n1 EXCEPT !.props = @ \cup {<<n, q[2], q[3]>> :
                                                  q \in {x \in w.native.props : x[1] = c}}]
         IN  OksClassWrapper([w1 EXCEPT !.native = n2], OksClass(n))

\* add: obj.get_attr("id") logs and returns None, then __copy_class
oks_add(w, obj) ==
    copy_class(Log(Log(w, "WARNING", "not a known property"),
                   "ERROR", "Attribute does not exist"),
               obj, NoneValue)

\* oks.OksClass.destroy(obj.instance); the engine refuses a class it does
\* not hold
oks_delete(w, obj) ==
    LET w1 == NativeCall(w, "destroy", wrapper_name(obj))
        c == wrapper_name(obj).chars[1]
    IN  IF c \notin ClassNames(w.native) THEN Throw(w1, NativeError)
        ELSE [w1 EXCEPT !.native = DroppedClass(@, c)]

\* rename that destroys the original before it copies it
oks_rename_delete_first(w, obj, new_name) ==
    LET w1 == oks_delete(w, obj)
    IN  IF w1.exc # Quiet THEN w1 ELSE copy_class(w1, obj, new_name)

oks_rename(w, obj, new_name) ==
    LET w1 == copy_class(w, obj, new_name)
    IN  IF w1.exc # Quiet THEN w1 ELSE oks_delete(w1, obj)

\* a Python dict and dict.get(key, default)
Dict(entries) == [type |-> "dict", entries |-> entries]

dict_get(d, key, default) ==
    IF key \in DOMAIN d.entries THEN d.entries[key] ELSE default

\* create that leaves transient to the engine's default, as __copy_class does
oks_create_without_transient(w, object_class, attributes, accepted) ==
    LET description == dict_get(attributes, "description", Str(<<>>))
        is_abstract == dict_get(attributes, "is_abstract", Bool(FALSE))
        w1 == NativeCall(w, "OksClass", <<object_class, description, is_abstract>>)
    IN  IF ~accepted THEN Throw(w1, NativeError)
        ELSE OksClassWrapper(
                 [w1 EXCEPT !.native =
                      NewClass(@, object_class.chars[1], ActiveFile(w.native),
                               description, is_abstract, Bool(FALSE))],
                 OksClass(object_class.chars[1]))

\* create: oks.OksClass(object_class, description, is_abstract, kernel,
\* transient); the engine accepts the new class or refuses it
oks_create(w, object_class, attributes, accepted) ==
    LET description == dict_get(attributes, "description", Str(<<>>))
        is_abstract == dict_get(attributes, "is_abstract", Bool(FALSE))
        transient == dict_get(attributes, "transient", Bool(FALSE))
        w1 == NativeCall(w, "OksClass",
                         <<object_class, description, is_abstract, transient>>)
    IN  IF ~accepted THEN Throw(w1, NativeError)
        ELSE OksClassWrapper(
                 [w1 EXCEPT !.native =
                      NewClass(@, object_class.chars[1], ActiveFile(w.native),
                               description, is_abstract, transient)],
                 OksClass(object_class.chars[1]))

\* ------------------------------------ ConffwkObjectModifier, ConffwkObjectHandler
Dal(d) == [type |-> "dal", class |-> d[1], id |-> d[2]]

ConffwkObjectModifier(w, dal_obj) ==
    Returns(w, [type |-> "ConffwkObjectModifier", _instance |-> dal_obj])

\* configuration.get_dal(object_class, object_name): the engine raises for an
\* object it does not hold
get_dal(w, object_class, object_name) ==
    LET w1 == NativeCall(w, "get_dal", <<object_class, object_name>>)
    IN  IF <<object_class, object_name>> \in w.native.dals
        THEN Returns(w1, Dal(<<object_class, object_name>>))
        ELSE Throw(w1, NativeError)

conffwk_get_obj(w, object_class, object_name) ==
    IF w.session._configuration = NoneValue THEN Throw(w, NotLoaded)
    ELSE LET w1 == get_dal(w, object_class, object_name)
         IN  IF w1.exc # Quiet THEN w1 ELSE ConffwkObjectModifier(w1, w1.ret)

SortedDals(S) ==
    CHOOSE s \in [1..Cardinality(S) -> S] :
        \A i, j \in 1..Cardinality(S) : i # j => s[i] # s[j]

\* the objects get_dals / get_all_dals hand back, each wrapped
WrappedDals(S) ==
    List([i \in 1..Cardinality(S) |->
            [type |-> "ConffwkObjectModifier", _instance |-> Dal(SortedDals(S)[i])]])

conffwk_get_all_obj(w, object_class) ==
    IF w.session._configuration = NoneValue THEN Throw(w, NotLoaded)
    ELSE LET wanted == IF object_class.type = "str" THEN List(<<object_class>>)
                       ELSE object_class
         IN  IF Truthy(wanted)
             THEN Returns(NativeCall(w, "get_dals", wanted),
                          WrappedDals({d \in w.native.dals :
                              \E i \in 1..Len(wanted.items) :
                                  wanted.items[i].chars = <<d[1]>>}))
             ELSE Returns(NativeCall(w, "get_all_dals", NoneValue),
                          WrappedDals(w.native.dals))

\* delete / add: self.configuration.configuration is None before open, and
\* None has no destroy_dal / add_dal
conffwk_delete(w, object) ==
    IF w.session._configuration = NoneValue THEN Throw(w, "AttributeError")
    ELSE LET d == <<object._instance.class, object._instance.id>>
             w1 == NativeCall(w, "destroy_dal", d)
         IN  IF d \notin w.native.dals THEN Throw(w1, NativeError)
             ELSE NativeCall([w1 EXCEPT !.native.dals = @ \ {d}], "update_dal", d)

conffwk_add(w, object) ==
    IF w.session._configuration = NoneValue THEN Throw(w, "AttributeError")
    ELSE LET d == <<object._instance.class, object._instance.id>>
             w1 == NativeCall(w, "add_dal", d)
         IN  NativeCall([w1 EXCEPT !.native.dals = @ \cup {d}], "update_dal", d)

\* rename: obj.rename(new_name) is asked of the wrapper, which has no rename
conffwk_rename(w, obj, new_name) == Throw(w, "AttributeError")

\* create with an empty attributes dict
conffwk_create(w, object_class, object_name, accepted) ==
    IF w.session._configuration = NoneValue THEN Throw(w, "AttributeError")
    ELSE LET d == <<object_class, object_name>>
             w1 == NativeCall(w, "create_dal", d)
         IN  IF ~accepted THEN Throw(w1, NativeError)
             ELSE ConffwkObjectModifier(
                      NativeCall(NativeCall([w1 EXCEPT !.native.dals = @ \cup {d}],
                                            "update_dal", d),
                                 "update_dal", d),
                      Dal(d))

\* ------------------------------------------------------- calls on a backend
CurWorld == World(session, native)

NoTree ==
    UNCHANGED <<name, id, stored_data, children, parents, root, branches,
                supers, stack, pc, backend>>

\* The effect of a call on the backend that ended in world w.
BackendCall(op, a1, a2, w) ==
    /\ nops < MaxCalls
    /\ pc = "backend"
    /\ session' = w.session
    /\ native' = w.native
    /\ opened' = (opened \/ (op = "open" /\ w.exc = Quiet))
    /\ result' = [ret |-> w.ret, log |-> w.log, calls |-> w.calls]
    /\ last' = Call(op, a1, a2, w.exc, Quiet)
    /\ nops' = nops + 1
    /\ NoTree

Outcomes == IF backend = "oks" THEN LoadOutcomes ELSE ConnectOutcomes

Open(configuration_name) ==
    \E outcome \in Outcomes :
        BackendCall("open", configuration_name, NoneValue,
                    open(CurWorld, configuration_name, outcome))

Close(partial_close, file_names) ==
    BackendCall("close", partial_close, file_names,
                close(CurWorld, partial_close, file_names))

Save(commit_message) ==
    BackendCall("save", commit_message, NoneValue, save(CurWorld, commit_message))

\* the names a caller asks to close
TargetNames == {SchemaFile, DataFile}

ListsOf(S) == UNION {[1..n -> S] : n \in 0..MaxList}

NameArgs == {Str(f) : f \in FileNames}

\* the same names in the order they are tried, the one named for the
\* session's kind first
NameOrder ==
    LET own == IF backend = "oks" THEN SchemaFile ELSE DataFile
        others == FileNames \ {own}
        rest == CHOOSE s \in [1..Cardinality(others) -> others] :
                    \A i, j \in 1..Cardinality(others) : i # j => s[i] # s[j]
    IN  <<Str(own)>> \o [i \in 1..Len(rest) |-> Str(rest[i])]

TargetArgs ==
    {NoneValue} \cup {Str(f) : f \in TargetNames}
        \cup {List(l) : l \in ListsOf({Str(f) : f \in TargetNames})}

PartialArgs == {Bool(FALSE), Bool(TRUE), DefaultPartialClose}

MessageArgs == {Str(m) : m \in Messages}

\* OksKernelBackend(None) or ConffwkBackend(None) has been constructed
InitBackend ==
    /\ name = <<>>
    /\ id = <<>>
    /\ stored_data = <<>>
    /\ children = <<>>
    /\ parents = <<>>
    /\ root = None
    /\ branches = <<>>
    /\ supers = <<>>
    /\ stack = <<>>
    /\ pc = "backend"
    /\ nops = 0
    /\ backend \in {"oks", "conffwk"}
    /\ session = (IF backend = "oks" THEN OksSession ELSE ConffwkSession)
    /\ native = EmptyEngine
    /\ opened = FALSE
    /\ result = [ret |-> NoneValue, log |-> <<>>, calls |-> <<>>]
    /\ last = [Call("__init__", NoneValue, NoneValue, Quiet, Quiet) EXCEPT !.registered = 0]

NextSession ==
    \/ \E i \in DOMAIN NameOrder : Open(NameOrder[i])
    \/ \E partial_close \in PartialArgs, file_names \in TargetArgs :
          Close(partial_close, file_names)
    \/ \E commit_message \in MessageArgs : Save(commit_message)

SpecSession == InitBackend /\ [][NextSession]_vars

\* ------------------------------------------------------ calls on the handler
\* the class names and filters a caller passes to the class-addressed handler
ClassArgs == {Str(<<c>>) : c \in ClassPool}

FilterArgs == {NoneValue} \cup ClassArgs \cup {List(l) : l \in ListsOf(ClassArgs)}

\* the wrapped objects a caller holds
Wrappers == {Wrapped(OksClass(c)) : c \in ClassPool}

Modifiers == {[type |-> "ConffwkObjectModifier", _instance |-> Dal(d)] : d \in DalPool}

OksGetObj(object_class) ==
    /\ backend = "oks"
    /\ BackendCall("get_obj", object_class, NoneValue, oks_get_obj(CurWorld, object_class))

OksGetAllObj(object_class) ==
    /\ backend = "oks"
    /\ \E yields \in {"names", "classes"} :
          BackendCall("get_all_obj", object_class, NoneValue,
                      oks_get_all_obj(CurWorld, object_class, yields))

\* the values a caller supplies for a new class, and the dicts made of them
Supplied ==
    [description |-> Str(<<"d">>), is_abstract |-> Bool(TRUE),
     transient |-> Bool(TRUE), colour |-> Str(<<"red">>)]

AttrDicts ==
    {Dict([k \in K |-> Supplied[k]]) :
        K \in {{}, {"description"}, {"transient"}, {"is_abstract", "transient"},
               {"description", "colour"}}}

OksCreate(object_class, attributes) ==
    /\ backend = "oks"
    /\ \E accepted \in BOOLEAN :
          BackendCall("create", object_class, attributes,
                      oks_create(CurWorld, object_class, attributes, accepted))

OksAdd(obj) ==
    /\ backend = "oks"
    /\ BackendCall("add", obj, NoneValue, oks_add(CurWorld, obj))

OksDelete(obj) ==
    /\ backend = "oks"
    /\ BackendCall("delete", obj, NoneValue, oks_delete(CurWorld, obj))

OksRename(obj, new_name) ==
    /\ backend = "oks"
    /\ BackendCall("rename", obj, new_name, oks_rename(CurWorld, obj, new_name))

ConffwkGetObj(d) ==
    /\ backend = "conffwk"
    /\ BackendCall("get_obj", Str(<<d[1]>>), Str(<<d[2]>>),
                   conffwk_get_obj(CurWorld, d[1], d[2]))

ConffwkGetAllObj(object_class) ==
    /\ backend = "conffwk"
    /\ BackendCall("get_all_obj", object_class, NoneValue,
                   conffwk_get_all_obj(CurWorld, object_class))

ConffwkCreate(d) ==
    /\ backend = "conffwk"
    /\ \E accepted \in BOOLEAN :
          BackendCall("create", Str(<<d[1]>>), Str(<<d[2]>>),
                      conffwk_create(CurWorld, d[1], d[2], accepted))

ConffwkAdd(obj) ==
    /\ backend = "conffwk"
    /\ BackendCall("add", obj, NoneValue, conffwk_add(CurWorld, obj))

ConffwkDelete(obj) ==
    /\ backend = "conffwk"
    /\ BackendCall("delete", obj, NoneValue, conffwk_delete(CurWorld, obj))

ConffwkRename(obj, new_name) ==
    /\ backend = "conffwk"
    /\ BackendCall("rename", obj, new_name, conffwk_rename(CurWorld, obj, new_name))

NextHandler ==
    \/ \E i \in DOMAIN NameOrder : Open(NameOrder[i])
    \/ \E object_class \in ClassArgs : OksGetObj(object_class)
    \/ \E object_class \in FilterArgs : OksGetAllObj(object_class)
    \/ \E object_class \in ClassArgs, attributes \in AttrDicts :
          OksCreate(object_class, attributes)
    \/ \E obj \in Wrappers : OksAdd(obj)
    \/ \E obj \in Wrappers : OksDelete(obj)
    \/ \E obj \in Wrappers, new_name \in ClassArgs : OksRename(obj, new_name)
    \/ \E d \in DalPool : ConffwkGetObj(d)
    \/ \E object_class \in FilterArgs : ConffwkGetAllObj(object_class)
    \/ \E d \in DalPool : ConffwkCreate(d)
    \/ \E obj \in Modifiers : ConffwkAdd(obj)
    \/ \E obj \in Modifiers : ConffwkDelete(obj)
    \/ \E obj \in Modifiers, new_name \in ClassArgs : ConffwkRename(obj, new_name)

SpecHandler == InitBackend /\ [][NextHandler]_vars

\* ------------------------------------------- OksClassWrapper.set_attr, get_attr
\* Attribute names are sequences of pieces; "get" is always a piece of its own,
\* so "getname" is <<"get", "name">> and "get_name" is <<"get", "_", "name">>.
KNOWN_PROPERTIES ==
    {<<"name">>, <<"description">>, <<"is_abstract">>, <<"file">>,
     <<"all_super_classes">>, <<"all_sub_classes">>, <<"add_superclass">>,
     <<"add_sub_class">>, <<"remove_superclass">>, <<"remove_sub_class">>,
     <<"swap_superclass">>, <<"swap_sub_class">>}

\* str.replace(old, ""): every occurrence of old is taken out
replace(s, old) ==
    LET kept(piece) == piece # old
    IN  SelectSeq(s, kept)

\* hasattr(obj, member): whether the binding exposes member on objects of
\* the type of obj
hasattr(w, obj, member) == <<obj.type, member>> \in w.native.members

\* the engine writes a field of class c
WriteField(w, c, field, value) ==
    [w EXCEPT !.native.fields =
        {f \in @ : ~(f[1] = c /\ f[2] = field)} \cup {<<c, field, value>>}]

get_attr(w, self, attr_name) ==
    LET c == self._instance.name.chars[1]
        w1 == IF attr_name \notin KNOWN_PROPERTIES
              THEN Log(w, "WARNING", "not a known property")
              ELSE w
    IN  IF hasattr(w1, self._instance, <<"get", "_">> \o attr_name)
        THEN Returns(NativeCall(w1, <<"get", "_">> \o attr_name, NoneValue),
                     IF attr_name = <<"name">> THEN self._instance.name
                     ELSE FieldOf(w1.native, c, attr_name))
        ELSE IF hasattr(w1, self._instance, attr_name)
        THEN Returns(w1, FieldOf(w1.native, c, attr_name))
        ELSE IF ~hasattr(w1, self._instance, <<"name">>)
        THEN Throw(w1, "AttributeError")
        ELSE Returns(Log(NativeCall(w1, <<"name">>, NoneValue),
                         "ERROR", "does not exist"),
                     NoneValue)

set_attr(w, self, attr_name, attr_value) ==
    LET c == self._instance.name.chars[1]
        w1 == IF replace(attr_name, "get") \notin KNOWN_PROPERTIES
              THEN Log(w, "WARNING", "not a known property")
              ELSE w
    IN  IF hasattr(w1, self._instance, <<"set_">> \o attr_name)
        THEN WriteField(NativeCall(w1, <<"set_">> \o attr_name, attr_value),
                        c, attr_name, attr_value)
        ELSE IF hasattr(w1, self._instance, attr_name)
        THEN WriteField(NativeCall(w1, <<"setattr">>, attr_name),
                        c, attr_name, attr_value)
        ELSE LET w2 == get_attr(w1, self, <<"name">>)
             IN  IF w2.exc # Quiet THEN w2
                 ELSE Returns(Log(w2, "ERROR", "does not exist"), NoneValue)

\* ------------------------------------------------------ _OksKernelPropertyHandler
\* the three property kinds (OksClassProperties values)
OksClassProperties == {"attribute", "method", "relationship"}

\* the engine's object for a property of a class
Property(c, kind, prop_name) ==
    [type |-> kind, owner |-> c, name |-> prop_name]

\* get_attr (and get_obj, which has the same body): obj.get_<kind>(attr_name)
\* when the class object has that finder, None otherwise; the engine answers
\* None for a name the class has no property of
prop_get_attr(w, kind, obj, attr_name) ==
    IF ~hasattr(w, obj, <<"get", "_", kind>>) THEN Returns(w, NoneValue)
    ELSE LET w1 == NativeCall(w, <<"get", "_", kind>>, attr_name)
             c == obj.name.chars[1]
         IN  IF <<c, kind, attr_name>> \in w.native.props
             THEN Returns(w1, Property(c, kind, attr_name))
             ELSE Returns(w1, NoneValue)

\* obj.get_name() inside the message of a log call
get_name(w, obj) ==
    IF ~hasattr(w, obj, <<"get", "_", "name">>) THEN Throw(w, "AttributeError")
    ELSE Returns(NativeCall(w, <<"get", "_", "name">>, NoneValue), obj.name)

\* set_attr without the test for a property that was not found
prop_set_attr_unchecked(w, kind, obj, attr_name, attr_value) ==
    LET w1 == prop_get_attr(w, kind, obj, attr_name)
        prop == w1.ret
    IN  IF ~hasattr(w1, prop, <<"set_", kind>>)
        THEN LET w2 == get_name(w1, obj)
             IN  IF w2.exc # Quiet THEN w2
                 ELSE Returns(Log(w2, "ERROR", "does not support modification"),
                              NoneValue)
        ELSE Returns(WriteField(NativeCall(w1, <<"set_", kind>>, attr_value),
                                obj.name.chars[1], <<kind, ".", attr_name>>,
                                attr_value),
                     NoneValue)

prop_set_attr(w, kind, obj, attr_name, attr_value) ==
    LET w1 == prop_get_attr(w, kind, obj, attr_name)
        prop == w1.ret
    IN  IF prop = NoneValue
        THEN LET w2 == get_name(w1, obj)
             IN  IF w2.exc # Quiet THEN w2
                 ELSE Returns(Log(w2, "WARNING", "does not exist"), NoneValue)
        ELSE IF ~hasattr(w1, prop, <<"set_", kind>>)
        THEN LET w2 == get_name(w1, obj)
             IN  IF w2.exc # Quiet THEN w2
                 ELSE Returns(Log(w2, "ERROR", "does not support modification"),
                              NoneValue)
        ELSE Returns(WriteField(NativeCall(w1, <<"set_", kind>>, attr_value),
                                obj.name.chars[1], <<kind, ".", attr_name>>,
                                attr_value),
                     NoneValue)

\* ---------------------------------------------------------- OksKernelMethodHandler
\* OksMethod.add_implementation(language, prototype, body)
add_implementation(w, prop, language, prototype, body) ==
    [NativeCall(w, <<"add_implementation">>, <<language, prototype, body>>)
        EXCEPT !.native.impls =
            @ \cup {<<prop.owner, prop.name, language, prototype, body>>}]

\* OksMethod.remove_implementation(language): the engine refuses a language
\* the method has no implementation in
remove_implementation(w, prop, language) ==
    LET w1 == NativeCall(w, <<"remove_implementation">>, language)
        held == {m \in w.native.impls :
                    m[1] = prop.owner /\ m[2] = prop.name /\ m[3] = language}
    IN  IF held = {} THEN Throw(w1, NativeError)
        ELSE [w1 EXCEPT !.native.impls = @ \ held]

\* __set_implementation: the method is looked up under attr_name, and
\* attr_name is what remove_implementation is given
set_implementation(w, obj, attr_name, attr_value) ==
    LET lanuage == dict_get(attr_value, "language", Str(<<>>))
        prototype == dict_get(attr_value, "prototype", Str(<<>>))
        body == dict_get(attr_value, "body", Str(<<>>))
        remove == dict_get(attr_value, "remove", Bool(FALSE))
        w1 == prop_get_attr(w, "method", obj, attr_name)
        prop == w1.ret
    IN  IF prop = NoneValue
        THEN LET w2 == get_name(w1, obj)
             IN  IF w2.exc # Quiet THEN w2
                 ELSE Returns(Log(w2, "WARNING", "does not exist"), NoneValue)
        ELSE IF Truthy(remove)
        THEN LET w2 == remove_implementation(w1, prop, Str(<<attr_name>>))
             IN  IF w2.exc # Quiet THEN w2 ELSE Returns(w2, NoneValue)
        ELSE Returns(add_implementation(w1, prop, lanuage, prototype, body), NoneValue)

\* OksKernelMethodHandler.set_attr
method_set_attr(w, obj, attr_name, attr_value) ==
    IF attr_name = "implementation"
    THEN set_implementation(w, obj, attr_name, attr_value)
    ELSE prop_set_attr(w, "method", obj, attr_name, attr_value)

\* ------------------------------------- calls on a wrapper and on its handlers
\* what the binding exposes: the accessors the handlers of this package call,
\* and a binding that has more of them
PlainSurface ==
    {<<"OksClass", m>> :
        m \in {<<"get", "_", "name">>, <<"get", "_", "description">>,
               <<"get", "_", "is_abstract">>, <<"set_", "description">>,
               <<"set_", "is_abstract">>, <<"get", "_", "attribute">>,
               <<"get", "_", "method">>}}
        \cup {<<"method", <<"add_implementation">>>>,
              <<"method", <<"remove_implementation">>>>}

RichSurface ==
    PlainSurface
        \cup {<<"OksClass", m>> :
                 m \in {<<"get", "_", "transient">>, <<"set_", "transient">>,
                        <<"get", "_", "relationship">>}}
        \cup {<<"attribute", <<"set_", "attribute">>>>}

Surfaces == {PlainSurface, RichSurface}

\* the attribute names and values a caller passes to a wrapper
AttrNames ==
    {<<"description">>, <<"transient">>, <<"colour">>, <<"get", "name">>,
     <<"get", "_", "name">>}

AttrValues == {Str(<<"text">>), Bool(TRUE)}

\* the property names a caller passes to a property handler
PropNames == {"size", "owner", "run", "implementation", "ghost"}

\* the values a caller passes for an implementation
ImplementationArgs ==
    {Dict([language |-> Str(<<"python">>), prototype |-> Str(<<"def f()">>),
           body |-> Str(<<"pass">>)]),
     Dict([language |-> Str(<<"c++">>), remove |-> Bool(TRUE)]),
     Dict(<<>>)}

\* the wrapper was obtained from the configuration
Held(obj) == obj.name.chars[1] \in ClassNames(native)

WrapperSetAttr(self, attr_name, attr_value) ==
    /\ backend = "oks"
    /\ Held(self._instance)
    /\ BackendCall("set_attr", self, [name |-> attr_name, value |-> attr_value],
                   set_attr(CurWorld, self, attr_name, attr_value))

WrapperGetAttr(self, attr_name) ==
    /\ backend = "oks"
    /\ Held(self._instance)
    /\ BackendCall("get_attr", self, attr_name, get_attr(CurWorld, self, attr_name))

PropGetAttr(kind, obj, attr_name) ==
    /\ backend = "oks"
    /\ Held(obj)
    /\ BackendCall("get_attr", [handler |-> kind, obj |-> obj], attr_name,
                   prop_get_attr(CurWorld, kind, obj, attr_name))

PropSetAttr(kind, obj, attr_name, attr_value) ==
    /\ backend = "oks"
    /\ Held(obj)
    /\ kind # "method"
    /\ BackendCall("set_attr", [handler |-> kind, obj |-> obj],
                   [name |-> attr_name, value |-> attr_value],
                   prop_set_attr(CurWorld, kind, obj, attr_name, attr_value))

MethodSetAttr(obj, attr_name, attr_value) ==
    /\ backend = "oks"
    /\ Held(obj)
    /\ attr_name = "implementation" <=> attr_value \in ImplementationArgs
    /\ BackendCall("set_attr", [handler |-> "method", obj |-> obj],
                   [name |-> attr_name, value |-> attr_value],
                   method_set_attr(CurWorld, obj, attr_name, attr_value))

\* OksKernelBackend(None) has been constructed on one of the bindings
InitWrapper ==
    /\ name = <<>>
    /\ id = <<>>
    /\ stored_data = <<>>
    /\ children = <<>>
    /\ parents = <<>>
    /\ root = None
    /\ branches = <<>>
    /\ supers = <<>>
    /\ stack = <<>>
    /\ pc = "backend"
    /\ nops = 0
    /\ backend = "oks"
    /\ session = OksSession
    /\ \E members \in Surfaces : native = [EmptyEngine EXCEPT !.members = members]
    /\ opened = FALSE
    /\ result = [ret |-> NoneValue, log |-> <<>>, calls |-> <<>>]
    /\ last = [Call("__init__", NoneValue, NoneValue, Quiet, Quiet) EXCEPT !.registered = 0]

NextWrapper ==
    \/ \E i \in DOMAIN NameOrder : Open(NameOrder[i])
    \/ \E self \in Wrappers, attr_name \in AttrNames, attr_value \in AttrValues :
          WrapperSetAttr(self, attr_name, attr_value)
    \/ \E self \in Wrappers, attr_name \in AttrNames \cup {<<"name">>} :
          WrapperGetAttr(self, attr_name)
    \/ \E kind \in OksClassProperties, c \in ClassPool, attr_name \in PropNames :
          PropGetAttr(kind, OksClass(c), attr_name)
    \/ \E kind \in OksClassProperties, c \in ClassPool, attr_name \in PropNames,
          attr_value \in AttrValues :
          PropSetAttr(kind, OksClass(c), attr_name, attr_value)
    \/ \E c \in ClassPool, attr_name \in PropNames,
          attr_value \in AttrValues \cup ImplementationArgs :
          MethodSetAttr(OksClass(c), attr_name, attr_value)

SpecWrapper == InitWrapper /\ [][NextWrapper]_vars

\* ------------------------------------- OksKernelBackend, ConffwkBackend, facade
\* the keys of _PROPERTY_HANDLERS that __init__ registers
PROPERTY_HANDLERS ==
    IF backend = "oks" THEN {"class_obj", "attribute", "relationship", "method"}
    ELSE {"class_obj"}

\* __init__(config_path): the session is made, the configuration is opened
\* when a path is given, and the handlers are registered
backend_init(w, config_path, outcome) ==
    IF Truthy(config_path) THEN open(w, config_path, outcome) ELSE w

\* the handler types a caller asks for, and str.lower() on them
HandlerTypes == {"class_obj", "CLASS_OBJ", "method", "widget"}

handler_type_lower ==
    [t \in HandlerTypes |-> IF t = "CLASS_OBJ" THEN "class_obj" ELSE t]

get_handler(w, handler_type) ==
    IF handler_type_lower[handler_type] \notin PROPERTY_HANDLERS
    THEN Throw(w, "ValueError")
    ELSE IF handler_type \notin PROPERTY_HANDLERS THEN Throw(w, "KeyError")
    ELSE Returns(w, [type |-> "handler", key |-> handler_type])

\* backend.handler: IConfigBackend and its two subclasses define get_handler,
\* property_handlers, get_configuration, open, close, save and
\* register_handler
handler(w) ==
    IF "handler" \in {"get_handler", "property_handlers", "get_configuration",
                      "open", "close", "save", "register_handler",
                      "_PROPERTY_HANDLERS", "_CONFIGURATION"}
    THEN get_handler(w, "class_obj")
    ELSE Throw(w, "AttributeError")

Handler == BackendCall("handler", NoneValue, NoneValue, handler(CurWorld))

GetHandler(handler_type) ==
    BackendCall("get_handler", Str(<<handler_type>>), NoneValue,
                get_handler(CurWorld, handler_type))

\* the paths a facade is constructed with
PathArgs == {NoneValue, Str(SchemaFile), Str(DataFile), Str(<<"d">>)}

\* OksKernelBackend(config_path) or ConffwkBackend(config_path) has been
\* constructed
InitFacade ==
    /\ name = <<>>
    /\ id = <<>>
    /\ stored_data = <<>>
    /\ children = <<>>
    /\ parents = <<>>
    /\ root = None
    /\ branches = <<>>
    /\ supers = <<>>
    /\ stack = <<>>
    /\ pc = "backend"
    /\ nops = 0
    /\ backend \in {"oks", "conffwk"}
    /\ \E config_path \in PathArgs, outcome \in Outcomes :
          LET fresh == IF backend = "oks" THEN OksSession ELSE ConffwkSession
              w == backend_init(World(fresh, EmptyEngine), config_path, outcome)
          IN  /\ w.exc = Quiet
              /\ session = w.session
              /\ native = w.native
              /\ opened = Truthy(config_path)
              /\ result = [ret |-> NoneValue, log |-> w.log, calls |-> w.calls]
              /\ last = [Call("__init__", config_path, NoneValue, Quiet, Quiet)
                            EXCEPT !.registered = 0]

NextFacade ==
    \/ \E i \in DOMAIN NameOrder : Open(NameOrder[i])
    \/ \E partial_close \in PartialArgs, file_names \in TargetArgs :
          Close(partial_close, file_names)
    \/ Handler
    \/ \E handler_type \in HandlerTypes : GetHandler(handler_type)
    \/ \E object_class \in ClassArgs : OksGetObj(object_class)
    \/ \E d \in DalPool : ConffwkGetObj(d)
    \/ \E object_class \in FilterArgs : ConffwkGetAllObj(object_class)

SpecFacade == InitFacade /\ [][NextFacade]_vars

\* ------------------------------------------------------------------- claims
\* the call that led to the next state
Did(op, a1, a2) ==
    /\ nops' = nops + 1
    /\ last'.op = op
    /\ last'.a1 = a1
    /\ last'.a2 = a2

Linked(P, C) == ListIn(children[P], C) /\ ListIn(parents[C], P)

\* the branch objects that are the same branch as B under __eq__
Same(B) == {o \in Objs : __eq__(B, o)}

\* C1: paired linkage. In every reachable state, for all branches B and C, C is
\* in B's children iff B is in C's parents, also after a call that ended by
\* raising. Membership is by (id, name) equality, and objects that are equal
\* are one branch.
PairedLinkage ==
    \A B \in Objs, C \in Objs :
        (\E b \in Same(B) : ListIn(children[b], C))
            <=> (\E c \in Same(C) : ListIn(parents[c], B))

\* C2: once P and C are linked, P.remove_child(C) or C.remove_parent(P) leaves
\* C out of P's children and P out of C's parents.
RemovalClearsBothDirections ==
    [][\A P \in Objs, C \in Objs :
        (Linked(P, C) /\ (Did("remove_child", P, C) \/ Did("remove_parent", C, P)))
            => (~ListIn(children'[P], C) /\ ~ListIn(parents'[C], P))]_vars

ChildEdges == {<<p, c>> \in Objs \X Objs : c \in ChildSet(children, p)}

ParentEdges == {<<p, c>> \in Objs \X Objs : p \in ChildSet(parents, c)}

\* C3: add_branch(parent, b) for a (name, id) that is already registered leaves
\* exactly one registered branch with that (name, id), the original object, and
\* leaves the set of parent/child edges unchanged, whatever parent is given.
IdempotentDuplicateInsertion ==
    [][\A p \in Objs, b \in Objs :
        (Did("add_branch", p, b) /\ ListIn(branches, b))
            => /\ NameIdMatches(branches', name[b], id[b])
                    = <<get_branch_by_name_id(branches, name[b], id[b])>>
               /\ ChildEdges' = ChildEdges
               /\ ParentEdges' = ParentEdges]_vars

\* C4: add_branch(None, newRoot) makes newRoot the root and the only registered
\* branch, and emits the replacing-root warning when a root was already set.
RootResetSemantics ==
    [][\A b \in Objs :
        Did("add_branch", None, b)
            => /\ get_root' = b
               /\ get_all_branches' = <<b>>
               /\ (root # None => last'.warn = "BranchExistsWarning")]_vars

\* a populated tree was reset onto a branch that equals the old root
RootResetReached ==
    /\ last.op = "add_branch"
    /\ last.a1 = None
    /\ last.warn = "BranchExistsWarning"
    /\ root = last.a2
    /\ root # 1
    /\ __eq__(root, 1)
    /\ branches = <<root>>
    /\ last.registered >= 2

\* C5: no two registered branches have the same (name, id), so
\* get_branch_by_name_id never finds more than one match.
RegistryUnique ==
    \A i \in 1..Len(branches) :
        Len(NameIdMatches(branches, name[branches[i]], id[branches[i]])) = 1

\* add_branch was given a second object with a registered (name, id)
DuplicateSuppressed ==
    /\ last.op = "add_branch"
    /\ last.a1 \in Objs
    /\ last.a2 \in Objs
    /\ last.a2 \notin Registered
    /\ ListIn(branches, last.a2)
    /\ Len(branches) >= 2

NoRepeat(s) == \A i, j \in 1..Len(s) : i # j => ~__eq__(s[i], s[j])

\* C6: no branch's parents list holds the same parent twice and no branch's
\* children list holds the same child twice.
LinksAreSets ==
    \A o \in Objs : NoRepeat(parents[o]) /\ NoRepeat(children[o])

RECURSIVE SumLen(_, _)
SumLen(ds, field) ==
    IF ds = <<>> THEN 0
    ELSE Len(Head(ds)[field]) + SumLen(Tail(ds), field)

RECURSIVE LiveEdgeCount(_)
LiveEdgeCount(br) ==
    IF br = <<>> THEN 0
    ELSE Len(children[Head(br)]) + LiveEdgeCount(Tail(br))

\* C7: whenever tree_to_dict returns a mapping, it has one entry under
\* "branches" per registered branch, and the edges counted from its
\* "children" lists, the edges counted from its "parents" lists and the live
\* tree's edges are equally many.
RoundTripExport ==
    LET d == tree_to_dict
    IN  "branches" \in DOMAIN d =>
            /\ Len(d.branches) = Len(get_all_branches)
            /\ SumLen(d.branches, "children") = SumLen(d.branches, "parents")
            /\ SumLen(d.branches, "children") = LiveEdgeCount(get_all_branches)

\* the links from a registered branch to a child that equals a registered one
LinksAmongRegistered ==
    {<<p, c>> \in Registered \X Objs :
        c \in ChildSet(children, p) /\ ListIn(branches, c)}

\* C8: networkx_graph has exactly one node per registered branch and exactly
\* one edge per parent-to-child link among the registered branches.
GraphExport ==
    /\ Cardinality(networkx_graph.nodes) = Len(get_all_branches)
    /\ Cardinality(networkx_graph.edges) = Cardinality(LinksAmongRegistered)

\* C9: the children relation is acyclic: no branch is its own child or its own
\* transitive descendant, so branch_to_dict terminates on every branch.
Acyclic ==
    \A o \in Objs : o \notin Descendants(o) /\ ~Recurses(o)

\* the superclass lists that have been reported so far
Reported == [c \in Classes |-> IF supers[c] = Unasked THEN <<>> ELSE supers[c]]

\* the classes reached from class c along the reported superclass edges
SuperClosure(c) == Reach(Reported, ChildSet(Reported, c), NumClasses)

\* some class reached from c, c included, is its own transitive superclass
CycleFrom(c) == \E k \in SuperClosure(c) \cup {c} : k \in SuperClosure(k)

Constructing == pc # "start"

LowestLevelClass == stored_data[root]

\* the hierarchy reported to the constructor holds a cycle
CycleReached == Constructing /\ CycleFrom(LowestLevelClass)

\* C10: construction finishes for every hierarchy in which no class reached
\* from the chosen class is its own transitive superclass, and never finishes
\* when some reached class is: the recursion then goes on to whatever depth it
\* is allowed.
ConstructionTerminates ==
    /\ Constructing ~> (pc = "done" \/ CycleReached)
    /\ [](CycleReached => pc # "done")
    /\ CycleReached ~> (pc = "RecursionError")

\* construction finished on a hierarchy in which the chosen class has two
\* superclasses, one of them reached along two paths
DiamondConstructed ==
    /\ pc = "done"
    /\ ~CycleFrom(LowestLevelClass)
    /\ Len(children[root]) = 2
    /\ Len(name) = 4
    /\ Len(branches) = 3

\* the registered branch that stands for class c in the constructed tree
BranchOf(c) ==
    IF c = LowestLevelClass THEN get_root
    ELSE get_branches_by_name(branches, ClassName(c))[1]

\* C11: when OksSchemaTree construction has finished, the root branch has id
\* "root" and wraps the chosen class, every class reached from it along
\* superclass edges has exactly one registered branch named after it, and for
\* every (class, superclass) pair visited the superclass's branch is among the
\* children of the class's branch (by branch equality), also when a
\* superclass is reached along two paths.
SchemaTreeResult ==
    pc = "done" =>
        /\ id[get_root] = "root"
        /\ stored_data[get_root] \in RootChoices
        /\ name[get_root] = ClassName(stored_data[get_root])
        /\ ListIn(get_all_branches, get_root)
        /\ \A c \in SuperClosure(LowestLevelClass) :
              Len(get_branches_by_name(get_all_branches, ClassName(c))) = 1
        /\ \A c \in SuperClosure(LowestLevelClass) \cup {LowestLevelClass} :
              \A s \in ChildSet(Reported, c) :
                  ListIn(children[BranchOf(c)], BranchOf(s))

\* construction finished on a hierarchy where one class was reached along two
\* paths: two equal branches stand for it under different parents, and only
\* the first is registered
DiamondLinked ==
    /\ pc = "done"
    /\ \E o1 \in Objs, o2 \in Objs :
          /\ o1 # o2
          /\ __eq__(o1, o2)
          /\ o1 \in Registered
          /\ o2 \notin Registered
          /\ ~__eq__(parents[o1][1], parents[o2][1])

Loaded == native.schema \cup native.data

\* C14: save(message) on a session with nothing open fails with the
\* configuration-not-loaded error and commits nothing; on an open session it
\* commits every loaded schema and data unit with the given message.
SaveRequiresOpen ==
    [][\A m \in MessageArgs :
        Did("save", m, NoneValue)
            => IF Loaded = {}
               THEN last'.exc = NotLoaded /\ native'.saved = native.saved
               ELSE /\ last'.exc = Quiet
                    /\ \A f \in Loaded : <<f, m.chars>> \in native'.saved]_vars

\* the suffix the session's kind asks of a configuration name
KindSuffix == IF backend = "oks" THEN <<"schema", ".xml">> ELSE <<"data", ".xml">>

\* the call that establishes the backend connection with name n
Connects(n) ==
    IF backend = "oks" THEN [method |-> "load_schema", arg |-> n]
    ELSE [method |-> "Configuration", arg |-> <<"oksconflibs:">> \o n]

\* C15: open(name) with a name that does not end in the kind's suffix logs the
\* violation and goes on to establish the backend connection with that name:
\* no exception comes from the check, and the name is loaded whenever the
\* engine accepts it.
SoftNamingValidation ==
    [][\A n \in NameArgs :
        (Did("open", n, NoneValue) /\ ~endswith(n.chars, KindSuffix))
            => /\ \E i \in 1..Len(result'.log) : result'.log[i].level = "ERROR"
               /\ \E i \in 1..Len(result'.calls) : result'.calls[i] = Connects(n.chars)
               /\ last'.exc \in {Quiet, NativeError}
               /\ (last'.exc = Quiet => n.chars \in Loaded')]_vars

\* a configuration whose name breaks the convention was opened
MisnamedOpened ==
    /\ last.op = "open"
    /\ last.exc = Quiet
    /\ ~endswith(last.a1.chars, KindSuffix)
    /\ last.a1.chars \in Loaded
    /\ Len(result.log) >= 2

\* C16: the name property is unset before any open, and after open(name)
\* succeeds it is the name that was passed.
OpenRecordsName ==
    [][/\ (~opened => configuration_name_property(session) = NoneValue)
       /\ \A n \in NameArgs :
            (Did("open", n, NoneValue) /\ last'.exc = Quiet)
                => configuration_name_property(session') = n]_vars

\* the names a close is asked to release
Targets(file_names) ==
    IF file_names.type = "str" THEN {file_names.chars}
    ELSE IF file_names.type = "list"
    THEN {file_names.items[i].chars : i \in 1..Len(file_names.items)}
    ELSE {}

\* C17: on an opened session, close with partial false releases every loaded
\* unit; close with partial true and targets given as one name or as a
\* collection of names succeeds, releases the named targets and leaves every
\* other loaded unit loaded.
CloseSemantics ==
    [][\A p \in PartialArgs, t \in TargetArgs :
        (Did("close", p, t) /\ opened)
            => IF ~Truthy(p) THEN last'.exc = Quiet /\ Loaded' = {}
               ELSE t.type \in {"str", "list"}
                       => last'.exc = Quiet /\ Loaded' = Loaded \ Targets(t)]_vars

HandlerOps == {"get_obj", "get_all_obj", "create", "add", "delete", "rename"}

\* C13: on both backends, a get_obj, get_all_obj, create, add, delete or
\* rename made before any open has succeeded fails with the
\* configuration-not-loaded error and changes no state.
NoQueryBeforeOpen ==
    [][(~opened /\ nops' = nops + 1 /\ last'.op \in HandlerOps)
            => /\ last'.exc = NotLoaded
               /\ native' = native
               /\ session' = session]_vars

\* C18: class-addressed get_obj(class_name) returns a wrapper of the class of
\* that name when the configuration holds it, and fails with the
\* object-not-found error, returning nothing, when it does not.
ExactGet ==
    [][\A c \in ClassArgs :
        (backend = "oks" /\ Did("get_obj", c, NoneValue))
            => IF c.chars[1] \in ClassNames(native)
               THEN /\ last'.exc = Quiet
                    /\ result'.ret.type = "OksClassWrapper"
                    /\ result'.ret._instance.type = "OksClass"
                    /\ wrapper_name(result'.ret) = c
               ELSE /\ last'.exc = NotFound
                    /\ result'.ret = NoneValue]_vars

\* get_obj found one class in a configuration that lacks another
GetFound ==
    /\ backend = "oks"
    /\ last.op = "get_obj"
    /\ last.exc = Quiet
    /\ result.ret.type = "OksClassWrapper"
    /\ wrapper_name(result.ret) = last.a1
    /\ ClassNames(native) # ClassPool

\* the first occurrences of the elements of s, in order
RECURSIVE Dedup(_)
Dedup(s) ==
    IF s = <<>> THEN <<>>
    ELSE LET rest == Dedup(SubSeq(s, 1, Len(s) - 1))
         IN  IF \E i \in 1..Len(rest) : rest[i] = s[Len(s)] THEN rest
             ELSE Append(rest, s[Len(s)])

FilterNames(f) == IF f.type = "str" THEN <<f>> ELSE f.items

\* C19: class-addressed get_all_obj with a string or a list of names of
\* classes the configuration holds returns the wrappers of exactly those
\* classes, in the order of the filter, a repeated name giving one result.
FilteredGetAll ==
    [][\A f \in FilterArgs \ {NoneValue} :
        (/\ backend = "oks"
         /\ Did("get_all_obj", f, NoneValue)
         /\ \A i \in 1..Len(FilterNames(f)) :
                FilterNames(f)[i].chars[1] \in ClassNames(native))
            => /\ last'.exc = Quiet
               /\ result'.ret.type = "list"
               /\ [i \in 1..Len(result'.ret.items) |-> wrapper_name(result'.ret.items[i])]
                      = Dedup(FilterNames(f))]_vars

\* C20: class-addressed get_all_obj() without a filter on an open
\* configuration completes and returns one wrapper for every class of the
\* configuration.
UnfilteredGetAll ==
    [][(backend = "oks" /\ Did("get_all_obj", NoneValue, NoneValue) /\ opened)
            => /\ last'.exc = Quiet
               /\ result'.ret.type = "list"
               /\ Len(result'.ret.items) = Cardinality(ClassNames(native))
               /\ {wrapper_name(result'.ret.items[i]).chars[1] :
                      i \in 1..Len(result'.ret.items)} = ClassNames(native)]_vars

\* neither direction of the link between P and C is stored
Unlinked(P, C) == ~ListIn(children[P], C) /\ ~ListIn(parents[C], P)

\* C27: for a linked pair (P, C) of two different branches, P.remove_child(C)
\* and C.remove_parent(P) return without raising; for a pair that is not
\* linked each raises and leaves every children and parents list as it was.
LinkRemovalCompletes ==
    [][\A P \in Objs, C \in Objs :
        (~__eq__(P, C) /\ (Did("remove_child", P, C) \/ Did("remove_parent", C, P)))
            => /\ Linked(P, C) => last'.exc = Quiet
               /\ Unlinked(P, C) => /\ last'.exc # Quiet
                                    /\ children' = children
                                    /\ parents' = parents]_vars

\* C28: after any sequence of add_branch and remove_branch calls on a
\* constructed ConfigTree, get_root() is one of get_all_branches().
RootIsRegistered ==
    get_root # None => ListIn(get_all_branches, get_root)

\* C21: get_obj(name) right after a create(name, attributes) that returned
\* gives a wrapper of the class of that name, whose description, is_abstract
\* and transient are the values of attributes, or "", false and false for a
\* key that attributes lacks; no other key of attributes reaches the class.
CreateThenGet ==
    [][\A c \in ClassArgs, attributes \in AttrDicts :
        (/\ backend = "oks"
         /\ last.op = "create" /\ last.a1 = c /\ last.a2 = attributes
         /\ last.exc = Quiet
         /\ Did("get_obj", c, NoneValue))
            => /\ last'.exc = Quiet
               /\ result'.ret.type = "OksClassWrapper"
               /\ wrapper_name(result'.ret) = c
               /\ FieldOf(native', c.chars[1], <<"description">>)
                      = dict_get(attributes, "description", Str(<<>>))
               /\ FieldOf(native', c.chars[1], <<"is_abstract">>)
                      = dict_get(attributes, "is_abstract", Bool(FALSE))
               /\ FieldOf(native', c.chars[1], <<"transient">>)
                      = dict_get(attributes, "transient", Bool(FALSE))
               /\ FieldNames(native', c.chars[1])
                      = {<<"description">>, <<"is_abstract">>, <<"transient">>}]_vars

\* a class created with transient supplied and description left out was
\* looked up
CreatedThenFound ==
    /\ backend = "oks"
    /\ last.op = "get_obj"
    /\ last.exc = Quiet
    /\ result.ret.type = "OksClassWrapper"
    /\ FieldOf(native, wrapper_name(result.ret).chars[1], <<"transient">>) = Bool(TRUE)
    /\ FieldOf(native, wrapper_name(result.ret).chars[1], <<"description">>) = Str(<<>>)

\* the properties of class c by kind and name
PropsOf(na, c) == {<<q[2], q[3]>> : q \in {x \in na.props : x[1] = c}}

\* C22: rename(obj, new_name) of a class the configuration holds, to a name
\* it does not hold, leaves a class new_name with the attributes,
\* relationships and methods (by name) the class had, and the original name
\* is no longer found.
CloneRenameEquivalence ==
    [][\A obj \in Wrappers, new_name \in ClassArgs :
        (/\ backend = "oks"
         /\ Did("rename", obj, new_name)
         /\ wrapper_name(obj).chars[1] \in ClassNames(native)
         /\ new_name.chars[1] \notin ClassNames(native))
            => /\ new_name.chars[1] \in ClassNames(native')
               /\ PropsOf(native', new_name.chars[1])
                      = PropsOf(native, wrapper_name(obj).chars[1])
               /\ wrapper_name(obj).chars[1] \notin ClassNames(native')]_vars

\* what the call just made asked of the engine, in order
Asked == [i \in 1..Len(result.calls) |-> result.calls[i].method]

\* C29: rename(obj, new_name) of a class the configuration holds destroys the
\* class only after the copy under new_name was built; when the copy fails
\* nothing is destroyed and the original is still found; after the call the
\* old or the new name is found.
RenameNeverLosesTheClass ==
    [][\A obj \in Wrappers, new_name \in ClassArgs :
        (/\ backend = "oks"
         /\ Did("rename", obj, new_name)
         /\ wrapper_name(obj).chars[1] \in ClassNames(native))
            => /\ \/ wrapper_name(obj).chars[1] \in ClassNames(native')
                  \/ new_name.chars[1] \in ClassNames(native')
               /\ \A i \in 1..Len(Asked') :
                      Asked'[i] = "destroy"
                          => \E j \in 1..(i - 1) : Asked'[j] = "OksClass"
               /\ last'.exc # Quiet
                      => /\ wrapper_name(obj).chars[1] \in ClassNames(native')
                         /\ \A i \in 1..Len(Asked') : Asked'[i] # "destroy"]_vars

\* a rename of a held class to a free name ended by raising
RenameFailed ==
    /\ backend = "oks"
    /\ last.op = "rename"
    /\ last.exc # Quiet
    /\ wrapper_name(last.a1).chars[1] \in ClassNames(native)
    /\ last.a2.chars[1] \notin ClassNames(native)

\* the call just made logged at the given level
Logged(level) == \E i \in 1..Len(result.log) : result.log[i].level = level

\* C23: OksClassWrapper.set_attr(name, value) with a name outside the known
\* properties logs a warning and does not raise; when the wrapped class has a
\* setter or an attribute of that name the value is written, and when it has
\* neither an error is logged and nothing the engine holds changes.
UnknownSetIsAdvisory ==
    [][\A self \in Wrappers, attr_name \in AttrNames, attr_value \in AttrValues :
        (/\ Did("set_attr", self, [name |-> attr_name, value |-> attr_value])
         /\ attr_name \notin KNOWN_PROPERTIES)
            => /\ Logged("WARNING")'
               /\ last'.exc = Quiet
               /\ IF \/ hasattr(CurWorld, self._instance, <<"set_">> \o attr_name)
                     \/ hasattr(CurWorld, self._instance, attr_name)
                  THEN FieldOf(native', wrapper_name(self).chars[1], attr_name)
                           = attr_value
                  ELSE Logged("ERROR")' /\ native' = native]_vars

\* a property handler was asked about a name its class has no property of
Missing(kind, obj, attr_name) ==
    <<obj.name.chars[1], kind, attr_name>> \notin native.props

ImplsOf(na, c, method) == {Tail(Tail(m)) : m \in {x \in na.impls : x[1] = c /\ x[2] = method}}

\* C25: on the method handler, set_attr of "implementation" with a value
\* {language, prototype, body} attaches that implementation to the method it
\* is aimed at, and with remove: true takes the implementation of the named
\* language off that method; set_attr of any other name is the plain
\* set_attr of the property handlers.
TwoModeImplementation ==
    [][\A c \in ClassPool :
        /\ \A attr_value \in ImplementationArgs :
            (/\ Did("set_attr", [handler |-> "method", obj |-> OksClass(c)],
                    [name |-> "implementation", value |-> attr_value])
             /\ ~Missing("method", OksClass(c), "implementation"))
                => IF Truthy(dict_get(attr_value, "remove", Bool(FALSE)))
                   THEN \A m \in ImplsOf(native', c, "implementation") :
                            m[1] # dict_get(attr_value, "language", Str(<<>>))
                   ELSE <<dict_get(attr_value, "language", Str(<<>>)),
                          dict_get(attr_value, "prototype", Str(<<>>)),
                          dict_get(attr_value, "body", Str(<<>>))>>
                            \in ImplsOf(native', c, "implementation")
        /\ \A attr_name \in PropNames \ {"implementation"}, attr_value \in AttrValues :
            Did("set_attr", [handler |-> "method", obj |-> OksClass(c)],
                [name |-> attr_name, value |-> attr_value])
                => /\ native' = prop_set_attr(CurWorld, "method", OksClass(c),
                                              attr_name, attr_value).native
                   /\ result'.log = prop_set_attr(CurWorld, "method", OksClass(c),
                                                  attr_name, attr_value).log]_vars

\* C26: a facade constructed with a configuration path has opened it, its
\* `handler` gives the active object handler without raising, a get_obj
\* right after such a construction does not meet the not-loaded error, and
\* an open accepted by the engine on the opened facade succeeds.
FacadeEntryPoint ==
    [][/\ (last.op = "__init__" /\ Truthy(last.a1)) => Loaded # {}
       /\ Did("handler", NoneValue, NoneValue)
              => (last'.exc = Quiet /\ result'.ret.type = "handler")
       /\ (last.op = "__init__" /\ Truthy(last.a1) /\ nops' = nops + 1
              /\ last'.op = "get_obj")
              => last'.exc # NotLoaded
       /\ (opened /\ nops' = nops + 1 /\ last'.op = "open" /\ Loaded' # Loaded)
              => last'.exc = Quiet]_vars

\* C30: on the Conffwk session, right after a full close that succeeded, a
\* get_obj, a get_all_obj or a second close is rejected with the
\* configuration-not-loaded error.
CloseReturnsToNotLoaded ==
    [][(/\ backend = "conffwk"
        /\ last.op = "close" /\ last.exc = Quiet /\ ~Truthy(last.a1)
        /\ nops' = nops + 1
        /\ last'.op \in {"get_obj", "get_all_obj", "close"})
          => last'.exc = NotLoaded]_vars

====
